---- MODULE Spec2Model ----
(***************************************************************************)
(* Inductive conformal predictors (nonconformist/icp.py): BaseIcp,         *)
(* IcpClassifier and IcpRegressor.                                         *)
(*                                                                         *)
(* A numpy array x of shape [n, d] is the record [cols |-> d, rows |-> r]  *)
(* with r a sequence of n rows, each a sequence of d feature values; a     *)
(* Python attribute that may be None carries a field none.  Nonconformity  *)
(* scores are integers (tenths), p-values and significance levels are      *)
(* exact fractions [num, den].                                             *)
(***************************************************************************)
EXTENDS Integers, Sequences, FiniteSets, TLC

VARIABLES kind, conditional, smoothing,
          cal_x, cal_y, classes, categories, cal_scores,
          out

vars == <<kind, conditional, smoothing, cal_x, cal_y, classes, categories,
          cal_scores, out>>

----------------------------------------------------------------------------
(* Bounds of the model *)

\* rows of one calibrate / predict call
MaxBatch == 2
\* rows of the stored calibration set in the calibration life cycle
MaxCal == 3
\* rows of the calibration batch a predictor under test is calibrated with
MaxCalP == 4
\* the smoothing draw U of [0, 1) is a fraction u / UDen, u < UDen
UDen == 100
\* the draws taken are the multiples of UStep / UDen and the greatest
\* fraction (UDen - 1) / UDen
UStep == 20

Labels == {0, 1}
FeatureVals == {0, 1}
Dims == {1, 2}
\* test examples of one classifier predict call
TestSizes == {1}
\* significance levels 0.5 and 0.7
SigLevels == {[num |-> 5, den |-> 10], [num |-> 7, den |-> 10]}

\* the rows of d features; only the first feature is read by the condition
\* and the nonconformity function of the model, the others are fixed at 0
Rows(d) == {r \in [1..d -> FeatureVals] : \A i \in 2..d : r[i] = 0}
\* the arrays of shape [n, d], d in Dims
XArrays(n) == UNION {{[none |-> FALSE, cols |-> d, rows |-> r] : r \in [1..n -> Rows(d)]} : d \in Dims}
\* the label arrays of shape [n]
YArrays(n) == [1..n -> Labels]

----------------------------------------------------------------------------
(* numpy helpers *)

NoneX == [none |-> TRUE, cols |-> 0, rows |-> <<>>]
NoneY == [none |-> TRUE, vals |-> <<>>]

Range(s) == {s[i] : i \in DOMAIN s}

SetMin(S) == CHOOSE m \in S : \A e \in S : m <= e

\* np.unique: the sorted (ascending) distinct values
RECURSIVE SortedOfSet(_)
SortedOfSet(S) ==
  IF S = {} THEN <<>>
  ELSE LET m == SetMin(S) IN <<m>> \o SortedOfSet(S \ {m})

Unique(s) == SortedOfSet(Range(s))

\* insertion of v into an ascending sequence
RECURSIVE InsertAsc(_, _)
InsertAsc(s, v) ==
  IF s = <<>> THEN <<v>>
  ELSE IF v <= Head(s) THEN <<v>> \o s
  ELSE <<Head(s)>> \o InsertAsc(Tail(s), v)

\* np.sort: ascending
RECURSIVE Sort(_)
Sort(s) == IF s = <<>> THEN <<>> ELSE InsertAsc(Sort(Tail(s)), Head(s))

\* a[::-1]
Reverse(s) == [i \in 1..Len(s) |-> s[Len(s) + 1 - i]]

\* a[idx] for a boolean mask idx of the same length
RECURSIVE MaskSelect(_, _)
MaskSelect(s, mask) ==
  IF s = <<>> THEN <<>>
  ELSE (IF Head(mask) THEN <<Head(s)>> ELSE <<>>) \o MaskSelect(Tail(s), Tail(mask))

----------------------------------------------------------------------------
(* The collaborators: the nonconformity function and the condition function *)

\* nc_function.calc_nc for one example, in tenths: higher = more atypical
NcScore(row, y) == (row[1] + y + 1) * (row[1] + y + 1)

\* nc_function.calc_nc(x, y): one score per example
calc_nc(rows, y) == [i \in 1..Len(y) |-> NcScore(rows[i], y[i])]

\* self.condition((row, y)): the user's condition function is the first
\* feature of the input; without one it is lambda x: 0
condition(row, y) == IF conditional THEN row[1] ELSE 0

----------------------------------------------------------------------------
(* BaseIcp / IcpClassifier: calibrate *)

\* mutant of UpdateClasses: the registry is replaced on incremental calls too
UpdateClassesReplacing(cls, y, increment) == [none |-> FALSE, vals |-> Unique(y)]

\* IcpClassifier._update_classes
UpdateClasses(cls, y, increment) ==
  IF cls.none \/ ~increment
  THEN [none |-> FALSE, vals |-> Unique(y)]
  ELSE [none |-> FALSE, vals |-> Unique(cls.vals \o y)]

\* _calibrate_hook: IcpClassifier updates the class registry, BaseIcp passes
CalibrateHook(cls, y, increment) ==
  IF kind = "classifier" THEN UpdateClasses(cls, y, increment) ELSE cls

\* mutant of UpdateCalibrationSet: the labels are stacked before the inputs,
\* so a failing np.vstack leaves cal_y extended
UpdateCalibrationSetLabelsFirst(cx, cy, x, y, increment) ==
  IF increment /\ ~cx.none /\ ~cy.none
  THEN IF cx.cols # x.cols
       THEN [status |-> "ValueError", cal_x |-> cx,
             cal_y |-> [none |-> FALSE, vals |-> cy.vals \o y]]
       ELSE [status |-> "ok",
             cal_x |-> [none |-> FALSE, cols |-> cx.cols, rows |-> cx.rows \o x.rows],
             cal_y |-> [none |-> FALSE, vals |-> cy.vals \o y]]
  ELSE [status |-> "ok", cal_x |-> x, cal_y |-> [none |-> FALSE, vals |-> y]]

\* BaseIcp._update_calibration_set; np.vstack raises ValueError when the
\* column counts differ, before cal_x or cal_y is assigned
UpdateCalibrationSet(cx, cy, x, y, increment) ==
  IF increment /\ ~cx.none /\ ~cy.none
  THEN IF cx.cols # x.cols
       THEN [status |-> "ValueError", cal_x |-> cx, cal_y |-> cy]
       ELSE [status |-> "ok",
             cal_x |-> [none |-> FALSE, cols |-> cx.cols, rows |-> cx.rows \o x.rows],
             cal_y |-> [none |-> FALSE, vals |-> cy.vals \o y]]
  ELSE [status |-> "ok", cal_x |-> x, cal_y |-> [none |-> FALSE, vals |-> y]]

\* category_map of calibrate: the condition of every row of the call's x, y
CategoryMap(x, y) == [i \in 1..Len(y) |-> condition(x.rows[i], y[i])]

\* np.sort(calc_nc(cal_x[idx, :], cal_y[idx]))[::-1]
CategoryScores(cx, cy, idx) ==
  Reverse(Sort(calc_nc(MaskSelect(cx.rows, idx), MaskSelect(cy.vals, idx))))

\* the score table of calibrate, built after the calibration set is updated.
\* The boolean mask idx has the length of the call's y: indexing cal_x with
\* a mask of another length raises IndexError (numpy 1.13 and later), and
\* the table stays the empty defaultdict.
ScoreTable(cx, cy, x, y) ==
  IF conditional
  THEN LET cmap == CategoryMap(x, y)
           cats == Unique(cmap)
       IN IF cats # <<>> /\ Len(cmap) # Len(cx.rows)
          THEN [status |-> "IndexError", categories |-> cats,
                cal_scores |-> [default |-> TRUE, tab |-> <<>>]]
          ELSE [status |-> "ok", categories |-> cats,
                cal_scores |->
                  [default |-> TRUE,
                   tab |-> [c \in Range(cats) |->
                             CategoryScores(cx, cy, [i \in 1..Len(cmap) |-> cmap[i] = c])]]]
  ELSE [status |-> "ok", categories |-> <<0>>,
        cal_scores |->
          [default |-> FALSE,
           tab |-> (0 :> Reverse(Sort(calc_nc(cx.rows, cy.vals))))]]

\* BaseIcp.calibrate on the predictor state s
CalibrateResult(s, x, y, increment) ==
  LET cls == CalibrateHook(s.classes, y, increment)
      upd == UpdateCalibrationSet(s.cal_x, s.cal_y, x, y, increment)
  IN IF upd.status # "ok"
     THEN [s EXCEPT !.classes = cls, !.status = upd.status,
                    !.cal_x = upd.cal_x, !.cal_y = upd.cal_y]
     ELSE LET tbl == ScoreTable(upd.cal_x, upd.cal_y, x, y)
          IN [status |-> tbl.status, cal_x |-> upd.cal_x, cal_y |-> upd.cal_y,
              classes |-> cls, categories |-> tbl.categories,
              cal_scores |-> tbl.cal_scores]

\* the predictor after __init__
Fresh ==
  [status |-> "init", cal_x |-> NoneX, cal_y |-> NoneY, classes |-> NoneY,
   categories |-> <<>>, cal_scores |-> [default |-> FALSE, tab |-> <<>>]]

Self ==
  [status |-> out.status, cal_x |-> cal_x, cal_y |-> cal_y, classes |-> classes,
   categories |-> categories, cal_scores |-> cal_scores]

\* significance=None
NoneSig == [num |-> 0, den |-> 0]

\* out describes the last call: the operation, how it ended (status is "ok"
\* or the exception raised), its arguments and the value it returned
NoCall ==
  [op |-> "none", status |-> "init", increment |-> FALSE, x |-> NoneX,
   significance |-> NoneSig, result |-> <<>>, forwarded |-> <<>>]

Init ==
  /\ kind \in {"classifier", "regressor"}
  /\ conditional \in BOOLEAN
  /\ smoothing = FALSE
  /\ cal_x = Fresh.cal_x
  /\ cal_y = Fresh.cal_y
  /\ classes = Fresh.classes
  /\ categories = Fresh.categories
  /\ cal_scores = Fresh.cal_scores
  /\ out = NoCall

StoredRows == IF cal_x.none THEN 0 ELSE Len(cal_x.rows)

\* calibrate(x, y, increment)
Calibrate(x, y, increment) ==
  \E r \in {CalibrateResult(Self, x, y, increment)} :
     /\ cal_x' = r.cal_x
     /\ cal_y' = r.cal_y
     /\ classes' = r.classes
     /\ categories' = r.categories
     /\ cal_scores' = r.cal_scores
     /\ out' = [NoCall EXCEPT !.op = "calibrate", !.status = r.status,
                              !.increment = increment,
                              !.x = [x EXCEPT !.rows = <<>>]]
     /\ UNCHANGED <<kind, conditional, smoothing>>

Next ==
  \E n \in 0..MaxBatch : \E x \in XArrays(n), y \in YArrays(n), increment \in BOOLEAN :
    /\ (IF increment THEN StoredRows ELSE 0) + n <= MaxCal
    /\ Calibrate(x, y, increment)

Spec == Init /\ [][Next]_vars

----------------------------------------------------------------------------
(* IcpClassifier.predict *)

\* np.searchsorted(a, v, 'left') on the ascending a: binary search for the
\* first 0-based index i with a[i] >= v, between imin and imax
RECURSIVE BinSearchLeft(_, _, _, _)
BinSearchLeft(a, v, imin, imax) ==
  IF imin >= imax THEN imin
  ELSE LET mid == imin + ((imax - imin) \div 2)
       IN IF a[mid + 1] < v
          THEN BinSearchLeft(a, v, mid + 1, imax)
          ELSE BinSearchLeft(a, v, imin, mid)

\* np.searchsorted(a, v, 'right'): the first 0-based index i with a[i] > v
RECURSIVE BinSearchRight(_, _, _, _)
BinSearchRight(a, v, imin, imax) ==
  IF imin >= imax THEN imin
  ELSE LET mid == imin + ((imax - imin) \div 2)
       IN IF a[mid + 1] <= v
          THEN BinSearchRight(a, v, mid + 1, imax)
          ELSE BinSearchRight(a, v, imin, mid)

\* mutant of SearchSortedLeft: the rightmost insertion point
SearchSortedLeftAsRight(a, v) == BinSearchRight(a, v, 0, Len(a))

SearchSortedLeft(a, v) == BinSearchLeft(a, v, 0, Len(a))
SearchSortedRight(a, v) == BinSearchRight(a, v, 0, Len(a))

\* mutant of NGt: the ties are counted as greater
NGtWithTies(cal, nc) == Len(cal) - SearchSortedLeft(cal, nc)

\* n_gt = n_cal - idx_right, on the ascending cal_scores
NGt(cal, nc) == Len(cal) - SearchSortedRight(cal, nc)

\* mutant of NEq: the test example itself is not counted
NEqNoSelf(cal, nc) == SearchSortedRight(cal, nc) - SearchSortedLeft(cal, nc)

\* n_eq = idx_right - idx_left + 1
NEq(cal, nc) == SearchSortedRight(cal, nc) - SearchSortedLeft(cal, nc) + 1

\* the tie term times UDen: n_eq * U with smoothing, U = u / UDen the draw
\* of np.random.uniform(0, 1), and n_eq without
TieTerm(n_eq, u) == IF smoothing THEN n_eq * u ELSE n_eq * UDen

\* p[j, i] = n_gt / (n_cal + 1) + tie term / (n_cal + 1), for the table
\* entry scores (descending) of the example's category
PValue(scores, nc, u) ==
  LET cal == Reverse(scores)
      n_cal == Len(cal)
  IN [num |-> NGt(cal, nc) * UDen + TieTerm(NEq(cal, nc), u),
      den |-> (n_cal + 1) * UDen]

\* self.cal_scores[key]: a defaultdict gives a missing key the empty array
Lookup(table, key) == IF key \in DOMAIN table.tab THEN table.tab[key] ELSE <<>>

\* the keys predict looks up, which a defaultdict then holds
LookedUp(x, cls) == {condition(x.rows[j], cls[i]) : j \in 1..Len(x.rows), i \in 1..Len(cls)}

AfterLookups(table, keys) ==
  IF table.default
  THEN [table EXCEPT !.tab = [k \in DOMAIN table.tab \cup keys |-> Lookup(table, k)]]
  ELSE table

\* the p-value matrix [n_test_objects, classes.size]; u[j][i] is the draw of
\* example j and class i
PValues(x, u) ==
  [j \in 1..Len(x.rows) |->
    [i \in 1..Len(classes.vals) |->
      LET c == classes.vals[i]
      IN PValue(Lookup(cal_scores, condition(x.rows[j], c)),
                NcScore(x.rows[j], c), u[j][i])]]

\* mutant of Greater: the comparison is turned around
GreaterInverted(p, significance) == p.num * significance.den < significance.num * p.den

\* p > significance on exact fractions
Greater(p, significance) == p.num * significance.den > significance.num * p.den

\* the value predict returns
PredictReturn(p, significance) ==
  IF significance # NoneSig
  THEN [j \in DOMAIN p |-> [i \in DOMAIN p[j] |-> Greater(p[j][i], significance)]]
  ELSE p

\* IcpClassifier.predict(x, significance) with the draws u
Predict(x, significance, u) ==
  /\ kind = "classifier"
  /\ ~classes.none
  /\ LookedUp(x, classes.vals) \subseteq DOMAIN cal_scores.tab \/ cal_scores.default
  /\ cal_scores' = AfterLookups(cal_scores, LookedUp(x, classes.vals))
  /\ out' = [NoCall EXCEPT !.op = "predict", !.status = "ok", !.x = x,
                           !.significance = significance,
                           !.result = PredictReturn(PValues(x, u), significance)]
  /\ UNCHANGED <<kind, conditional, smoothing, cal_x, cal_y, classes, categories>>

\* the numerators u of the values np.random.uniform(0, 1) returns: from 0
\* up to the greatest fraction below 1, which lies above every bound
\* (significance * (n_cal + 1) - n_gt) / n_eq < 1 a draw is compared with
UNums == {u \in 0..(UDen - 1) : u % UStep = 0 \/ u = UDen - 1}

\* the draws of one predict call on n examples and k classes: one per
\* (example, class) pair with smoothing, none without
Draws(n, k) ==
  IF smoothing THEN [1..n -> [1..k -> UNums]] ELSE {[j \in 1..n |-> [i \in 1..k |-> 0]]}

\* the examples of the batch are in non-decreasing order of (first feature,
\* label): the score table of calibrate depends on the batch through np.sort
\* alone, so every table of a batch is the table of an ordered batch
Ordered(x, y) ==
  \A i \in 1..(Len(y) - 1) :
    \/ x.rows[i][1] < x.rows[i + 1][1]
    \/ x.rows[i][1] = x.rows[i + 1][1] /\ y[i] <= y[i + 1]

\* a classifier calibrated once, on inputs of one feature (predict reads the
\* inputs through the condition and the nonconformity function alone, and
\* these read the first feature)
PredInit ==
  /\ kind = "classifier"
  /\ conditional \in BOOLEAN
  /\ smoothing \in BOOLEAN
  /\ \E n \in 0..MaxCalP : \E x \in XArrays(n), y \in YArrays(n) :
       LET r == CalibrateResult(Fresh, x, y, FALSE)
       IN /\ x.cols = 1
          /\ Ordered(x, y)
          /\ cal_x = r.cal_x
          /\ cal_y = r.cal_y
          /\ classes = r.classes
          /\ categories = r.categories
          /\ cal_scores = r.cal_scores
          /\ out = [NoCall EXCEPT !.op = "calibrate", !.status = r.status,
                                  !.x = [x EXCEPT !.rows = <<>>]]

\* predict on one test example of the calibration set's feature count
PredNext ==
  \E n \in TestSizes : \E x \in XArrays(n), significance \in SigLevels \cup {NoneSig} :
    \E u \in Draws(n, Len(classes.vals)) :
      /\ x.cols = cal_x.cols
      /\ Predict(x, significance, u)

PredSpec == PredInit /\ [][PredNext]_vars

----------------------------------------------------------------------------
(* IcpRegressor.predict *)

\* the label placeholder None of condition((x[i, :], None))
NoneLabel == -1

\* the grid 0.01, ..., 0.99 of significance=None
NGrid == 99

\* n_significance
NSignificance(significance) == IF significance = NoneSig THEN NGrid ELSE 1

\* nc_function.predict for one example at one significance level: the
\* point prediction (ten times the first feature, in tenths) widened by the
\* calibration score at the rank floor(significance * (n + 1)) - 1, clipped
\* to the array, of the descending scores
NcBounds(row, scores, significance) ==
  LET n == Len(scores)
      rank == ((significance.num * (n + 1)) \div significance.den) - 1
      border == IF rank < 0 THEN 0 ELSE IF rank > n - 1 THEN n - 1 ELSE rank
  IN <<10 * row[1] - scores[border + 1], 10 * row[1] + scores[border + 1]>>

\* nc_function.predict(x, nc_scores, significance) for one example: a pair
\* of bounds, or with significance=None the pair of bounds of every level
NcPredict(row, scores, significance) ==
  IF significance # NoneSig
  THEN NcBounds(row, scores, significance)
  ELSE <<[k \in 1..NGrid |-> NcBounds(row, scores, [num |-> k, den |-> 100])[1]],
         [k \in 1..NGrid |-> NcBounds(row, scores, [num |-> k, den |-> 100])[2]]>>

\* a row of np.zeros((n, 2)) or np.zeros((n, 2, n_significance))
ZeroRow(significance) ==
  IF NSignificance(significance) > 1
  THEN <<[k \in 1..NGrid |-> 0], [k \in 1..NGrid |-> 0]>>
  ELSE <<0, 0>>

\* condition_map of IcpRegressor.predict
ConditionMap(x) == [i \in 1..Len(x.rows) |-> condition(x.rows[i], NoneLabel)]

\* the categories of self.categories with a test example: the iterations of
\* the loop that call nc_function.predict
Forwarding(x) ==
  SelectSeq(categories, LAMBDA c : \E i \in 1..Len(x.rows) : ConditionMap(x)[i] = c)

\* the calls of nc_function.predict: the mask of the examples and the
\* calibration score array passed
ForwardedCalls(x) ==
  [k \in 1..Len(Forwarding(x)) |->
    [idx |-> [i \in 1..Len(x.rows) |-> ConditionMap(x)[i] = Forwarding(x)[k]],
     scores |-> Lookup(cal_scores, Forwarding(x)[k])]]

\* the prediction array: the rows of each forwarded category are assigned
\* the bounds returned for them, the others stay zero
Prediction(x, significance) ==
  [j \in 1..Len(x.rows) |->
    IF ConditionMap(x)[j] \in Range(categories)
    THEN NcPredict(x.rows[j], Lookup(cal_scores, ConditionMap(x)[j]), significance)
    ELSE ZeroRow(significance)]

\* IcpRegressor.predict(x, significance)
PredictRegressor(x, significance) ==
  /\ kind = "regressor"
  /\ ~cal_x.none
  /\ cal_scores' = AfterLookups(cal_scores, Range(Forwarding(x)))
  /\ out' = [NoCall EXCEPT !.op = "predict", !.status = "ok", !.x = x,
                           !.significance = significance,
                           !.result = Prediction(x, significance),
                           !.forwarded = ForwardedCalls(x)]
  /\ UNCHANGED <<kind, conditional, smoothing, cal_x, cal_y, classes, categories>>

\* a regressor calibrated once, on at least one example
RegInit ==
  /\ kind = "regressor"
  /\ conditional \in BOOLEAN
  /\ smoothing = FALSE
  /\ \E n \in 1..MaxBatch : \E x \in XArrays(n), y \in YArrays(n) :
       LET r == CalibrateResult(Fresh, x, y, FALSE)
       IN /\ cal_x = r.cal_x
          /\ cal_y = r.cal_y
          /\ classes = r.classes
          /\ categories = r.categories
          /\ cal_scores = r.cal_scores
          /\ out = [NoCall EXCEPT !.op = "calibrate", !.status = r.status,
                                  !.x = [x EXCEPT !.rows = <<>>]]

\* predict at one significance level, or at the grid of significance=None
RegNext ==
  \/ \E n \in 1..MaxBatch : \E x \in XArrays(n), significance \in SigLevels :
       /\ x.cols = cal_x.cols
       /\ PredictRegressor(x, significance)
  \/ \E n \in 1..MaxBatch : \E x \in XArrays(n) :
       /\ x.cols = cal_x.cols
       /\ PredictRegressor(x, NoneSig)

RegSpec == RegInit /\ [][RegNext]_vars

----------------------------------------------------------------------------
(* Claims on IcpClassifier.predict, checked under PredSpec *)

IsPredict == out.op = "predict" /\ out.status = "ok"
IsPValues == IsPredict /\ out.significance = NoneSig

\* the (example, class) pairs of the last predict call
Cells == {<<j, i>> \in (1..Len(out.x.rows)) \X (1..Len(classes.vals)) : TRUE}
CellScores(c) == Lookup(cal_scores, condition(out.x.rows[c[1]], classes.vals[c[2]]))
CellNc(c) == NcScore(out.x.rows[c[1]], classes.vals[c[2]])
CellOut(c) == out.result[c[1]][c[2]]

\* the scenario of C1: calibration scores {0.1, 0.4, 0.4, 0.9}, test score 0.4
Scenario(c) == ~smoothing /\ CellScores(c) = <<9, 4, 4, 1>> /\ CellNc(c) = 4

\* C1 as stated: non-smoothed, calibration scores {0.1, 0.4, 0.4, 0.9} in
\* the label's category and test score 0.4: the p-value is 3/5, the label
\* is included at significance 0.5 and excluded at significance 0.7.
C1_Scenario ==
  IsPredict =>
    \A c \in Cells : Scenario(c) =>
      /\ out.significance = NoneSig => CellOut(c).num * 5 = 3 * CellOut(c).den
      /\ out.significance = [num |-> 5, den |-> 10] => CellOut(c) = TRUE
      /\ out.significance = [num |-> 7, den |-> 10] => CellOut(c) = FALSE

\* C1 amended: in that scenario n_gt = 1 and n_eq = 2 + 1 = 3, the p-value
\* is (1 + 3)/5 = 4/5, and the label is included at significance 0.5 and
\* at significance 0.7.
C1_ScenarioFourFifths ==
  IsPredict =>
    \A c \in Cells : Scenario(c) =>
      /\ out.significance = NoneSig => CellOut(c).num * 5 = 4 * CellOut(c).den
      /\ out.significance = [num |-> 5, den |-> 10] => CellOut(c) = TRUE
      /\ out.significance = [num |-> 7, den |-> 10] => CellOut(c) = TRUE

C1_Witness ==
  /\ IsPredict
  /\ out.significance = [num |-> 7, den |-> 10]
  /\ \E c \in Cells : Scenario(c) /\ CellOut(c) = TRUE

\* the counts of a plain scan
ScanGt(scores, nc) == Cardinality({k \in 1..Len(scores) : scores[k] > nc})
ScanEq(scores, nc) == Cardinality({k \in 1..Len(scores) : scores[k] = nc})

\* C2: the non-smoothed p-value of every (example, class) pair equals
\* (G + E + 1) / (n_cal + 1), G and E the numbers of calibration scores of
\* the pair's category greater than and equal to the test score.
C2_ScanCount ==
  (IsPValues /\ ~smoothing) =>
    \A c \in Cells :
      CellOut(c).num * (Len(CellScores(c)) + 1)
        = (ScanGt(CellScores(c), CellNc(c)) + ScanEq(CellScores(c), CellNc(c)) + 1)
            * CellOut(c).den

C2_Witness ==
  /\ IsPValues
  /\ ~smoothing
  /\ \E c \in Cells : /\ ScanEq(CellScores(c), CellNc(c)) >= 2
                       /\ ScanGt(CellScores(c), CellNc(c)) >= 1
                       /\ ScanGt(CellScores(c), CellNc(c)) + ScanEq(CellScores(c), CellNc(c))
                            < Len(CellScores(c))

\* C5: every p-value predict computes lies in [0, 1], smoothed or not.
C5_Range ==
  IsPValues =>
    \A c \in Cells : /\ CellOut(c).den > 0
                       /\ 0 <= CellOut(c).num
                       /\ CellOut(c).num <= CellOut(c).den

C5_Witness ==
  /\ IsPValues
  /\ smoothing
  /\ \E c \in Cells : ScanEq(CellScores(c), CellNc(c)) >= 2 /\ CellOut(c).num > 0
  /\ \E c \in Cells : CellOut(c).num = 0

\* two consecutive predict calls on the same test input at two significance
\* levels; Lo is the call at the smaller level
SigLess(a, b) == a.num * b.den < b.num * a.den
TwoPredicts ==
  /\ IsPredict /\ out.significance # NoneSig
  /\ out'.op = "predict" /\ out'.significance # NoneSig
  /\ out'.x = out.x
  /\ out'.significance # out.significance
Nested ==
  LET lo == IF SigLess(out.significance, out'.significance) THEN out ELSE out'
      hi == IF SigLess(out.significance, out'.significance) THEN out' ELSE out
  IN \A j \in DOMAIN hi.result : \A i \in DOMAIN hi.result[j] :
       hi.result[j][i] => lo.result[j][i]

\* C6 as stated: for a fixed calibrated classifier and test example, every
\* label included at significance a2 is included at every a1 < a2.
C6_Monotone == [][TwoPredicts => Nested]_vars

\* C6 amended: the same for a classifier without smoothing.
C6_MonotoneNonSmoothed == [][(TwoPredicts /\ ~smoothing) => Nested]_vars

C6_Witness ==
  /\ IsPredict
  /\ ~smoothing
  /\ out.significance = [num |-> 7, den |-> 10]
  /\ \E c \in Cells : CellOut(c) = TRUE
  /\ \E c \in Cells : CellOut(c) = FALSE

----------------------------------------------------------------------------
(* Claims on calibrate, checked under Spec *)

IsCalibrate == out.op = "calibrate"

\* every category a condition function of the model can give
Cats == FeatureVals \cup {0}

RECURSIVE SumSizes(_, _)
SumSizes(tab, keys) ==
  IF keys = {} THEN 0
  ELSE LET k == CHOOSE k \in keys : TRUE
       IN Len(tab[k]) + SumSizes(tab, keys \ {k})

\* the scores of the stored calibration examples whose condition is c
StoredScoresOf(c) ==
  LET idx == [i \in 1..Len(cal_y.vals) |-> condition(cal_x.rows[i], cal_y.vals[i]) = c]
  IN calc_nc(MaskSelect(cal_x.rows, idx), MaskSelect(cal_y.vals, idx))

\* C3: after every calibrate call the sizes of the per-category score
\* sequences sum to the size of the stored calibration set, and every stored
\* example's score is in the category its condition gives, and only there.
C3_Partition ==
  IsCalibrate =>
    /\ SumSizes(cal_scores.tab, DOMAIN cal_scores.tab) = StoredRows
    /\ \A c \in Cats : Sort(Lookup(cal_scores, c)) = Sort(StoredScoresOf(c))

\* the predictor is as calibrate(A) leaves a fresh one, A the stored set
CalibratedOnce ==
  /\ IsCalibrate /\ out.status = "ok" /\ ~cal_x.none
  /\ LET f == CalibrateResult(Fresh, cal_x, cal_y.vals, FALSE)
     IN /\ classes = f.classes
        /\ categories = f.categories
        /\ cal_scores = f.cal_scores

\* the stored set and the table are those of one calibrate of A ++ B
AsConcatenation(a_x, a_y, x, y) ==
  LET f == CalibrateResult(Fresh, [a_x EXCEPT !.rows = a_x.rows \o x.rows],
                           a_y.vals \o y, FALSE)
  IN /\ cal_x' = f.cal_x
     /\ cal_y' = f.cal_y
     /\ cal_scores' = f.cal_scores

\* C4: calibrate(A) followed by calibrate(B, increment=True) leaves the
\* stored calibration set and the score table of a single calibrate of the
\* concatenation of A and B on a fresh predictor.
C4_IncrementalEquivalence ==
  [][\A n \in 0..MaxBatch : \A x \in XArrays(n), y \in YArrays(n) :
       (CalibratedOnce /\ x.cols = cal_x.cols /\ Calibrate(x, y, TRUE))
         => AsConcatenation(cal_x, cal_y, x, y)]_vars

ClassSet(cls) == IF cls.none THEN {} ELSE Range(cls.vals)

\* C7 as stated: over any calibrate calls, incremental or not, the class
\* registry after a call is a superset of the registry before it.
C7_NeverRemoved ==
  [][out'.op = "calibrate" => ClassSet(classes) \subseteq ClassSet(classes')]_vars

\* C7 amended: the registry after a calibrate call with increment=True is
\* a superset of the registry before it; a call with increment=False
\* replaces the registry by the distinct labels of its batch.
C7_IncrementalNeverRemoved ==
  [][(out'.op = "calibrate" /\ kind = "classifier") =>
       IF out'.increment
       THEN ClassSet(classes) \subseteq ClassSet(classes')
       ELSE ClassSet(classes') = Range(cal_y'.vals)]_vars

C7_Witness ==
  /\ IsCalibrate /\ out.increment /\ out.status = "ok"
  /\ kind = "classifier"
  /\ Len(cal_y.vals) = 2 /\ cal_y.vals[1] # cal_y.vals[2]
  /\ ClassSet(classes) = Labels

\* C8: calibrate(x, y, increment=True) on a predictor holding a calibration
\* set of another feature count fails with an error and leaves the stored
\* inputs and labels as they were.
C8_DimensionError ==
  [][(out'.op = "calibrate" /\ out'.increment /\ ~cal_x.none /\ ~cal_y.none
        /\ out'.x.cols # cal_x.cols)
       => (out'.status = "ValueError" /\ cal_x' = cal_x /\ cal_y' = cal_y)]_vars

C8_Witness ==
  /\ IsCalibrate /\ out.increment /\ out.status = "ValueError"
  /\ StoredRows > 0
  /\ out.x.cols # cal_x.cols

\* C10: once calibrated, a classifier's class registry equals the set of
\* distinct labels of the stored calibration set.
C10_RegistryIsStoredLabels ==
  (kind = "classifier" /\ ~classes.none) => ClassSet(classes) = Range(cal_y.vals)

----------------------------------------------------------------------------
(* Claim on IcpRegressor.predict, checked under RegSpec *)

\* C9: row j of the array IcpRegressor.predict returns holds the bounds the
\* nonconformity function's predict returned for x_j when given the
\* calibration score array of the category condition((x_j, None)).
C9_RowsAreForwardedBounds ==
  (IsPredict /\ kind = "regressor") =>
    \A j \in 1..Len(out.x.rows) :
      LET scores == Lookup(cal_scores, condition(out.x.rows[j], NoneLabel))
      IN /\ \E k \in DOMAIN out.forwarded :
              out.forwarded[k].idx[j] /\ out.forwarded[k].scores = scores
         /\ out.result[j] = NcPredict(out.x.rows[j], scores, out.significance)

====
